---- MODULE Spec2Model ----
(***************************************************************************)
(* Expense tracker (app.py, api.py): the expense store, the identifier     *)
(* allocator Expense._next_id, the CSV codec of save_expenses and          *)
(* load_expenses, the budget ledger and check_budgets.                     *)
(*                                                                         *)
(* Text is modelled as a sequence of one-character strings, so that        *)
(* joining, splitting, formatting, parsing, lower() and strip() are        *)
(* computed character by character.  Amounts are whole numbers (exact      *)
(* arithmetic; binary floating-point rounding is outside the model).       *)
(* Dates are days of October 2025 at midnight.                             *)
(***************************************************************************)
EXTENDS Integers, Sequences, FiniteSets, TLC

(***************************************************************************)
(* Bounds of the model.                                                    *)
(***************************************************************************)
MaxLen == 2
MaxId == 5

(***************************************************************************)
(* Text.                                                                   *)
(***************************************************************************)
Digits == <<"0", "1", "2", "3", "4", "5", "6", "7", "8", "9">>

DigitChars == {Digits[i] : i \in 1..10}

DigitValue(c) == (CHOOSE i \in 1..10 : Digits[i] = c) - 1

RECURSIVE IntToStr(_)
\* str(n) for a non-negative integer n
IntToStr(n) ==
    IF n < 10 THEN <<Digits[n + 1]>>
    ELSE IntToStr(n \div 10) \o <<Digits[(n % 10) + 1]>>

IsDigits(s) == Len(s) > 0 /\ \A i \in 1..Len(s) : s[i] \in DigitChars

RECURSIVE DigitsValue(_)
DigitsValue(s) ==
    IF Len(s) = 0 THEN 0
    ELSE 10 * DigitsValue(SubSeq(s, 1, Len(s) - 1)) + DigitValue(s[Len(s)])

\* A conversion returns Ok(value), or Fail when it raises ValueError.
Fail == {}

Ok(v) == {v}

\* The value of an Ok result, or of an argument that was supplied.
Val(o) == CHOOSE v \in o : TRUE

\* int(text)
ParseInt(s) == IF IsDigits(s) THEN Ok(DigitsValue(s)) ELSE Fail

\* str(float) of a whole amount: "12.0"
FormatAmount(a) == IntToStr(a) \o <<".", "0">>

\* float(text) for whole amounts: "12" and "12.0"
ParseAmount(s) ==
    IF IsDigits(s) THEN Ok(DigitsValue(s))
    ELSE IF Len(s) > 2 /\ SubSeq(s, Len(s) - 1, Len(s)) = <<".", "0">>
            /\ IsDigits(SubSeq(s, 1, Len(s) - 2))
         THEN Ok(DigitsValue(SubSeq(s, 1, Len(s) - 2)))
         ELSE Fail

YearMonth == <<"2", "0", "2", "5", "-", "1", "0", "-">>

Midnight == <<"T", "0", "0", ":", "0", "0", ":", "0", "0">>

TwoDigits(d) == IF d < 10 THEN <<"0">> \o IntToStr(d) ELSE IntToStr(d)

\* datetime.isoformat() of a day of October 2025 at midnight
IsoFormat(d) == YearMonth \o TwoDigits(d) \o Midnight

\* datetime.fromisoformat(text): "2025-10-DD" or "2025-10-DDT00:00:00"
FromIsoFormat(s) ==
    LET day == SubSeq(s, 9, 10)
        rest == SubSeq(s, 11, Len(s))
    IN  IF Len(s) >= 10 /\ SubSeq(s, 1, 8) = YearMonth /\ IsDigits(day)
           /\ DigitsValue(day) \in 1..31 /\ rest \in {<<>>, Midnight}
        THEN Ok(DigitsValue(day))
        ELSE Fail

RECURSIVE Join(_, _)
\* sep.join(parts)
Join(parts, sep) ==
    IF Len(parts) = 0 THEN <<>>
    ELSE IF Len(parts) = 1 THEN parts[1]
    ELSE parts[1] \o <<sep>> \o Join(Tail(parts), sep)

RECURSIVE SplitFrom(_, _, _)
\* text.split(sep), with cur the piece collected so far
SplitFrom(s, sep, cur) ==
    IF Len(s) = 0 THEN <<cur>>
    ELSE IF s[1] = sep THEN <<cur>> \o SplitFrom(Tail(s), sep, <<>>)
    ELSE SplitFrom(Tail(s), sep, Append(cur, s[1]))

Split(s, sep) == SplitFrom(s, sep, <<>>)

LowerChar(c) ==
    CASE c = "F" -> "f"
      [] c = "T" -> "t"
      [] c = "E" -> "e"
      [] c = "U" -> "u"
      [] c = "S" -> "s"
      [] c = "O" -> "o"
      [] c = "D" -> "d"
      [] c = "W" -> "w"
      [] c = "R" -> "r"
      [] c = "K" -> "k"
      [] OTHER -> c

\* text.lower()
Lower(s) == [i \in 1..Len(s) |-> LowerChar(s[i])]

RECURSIVE LStrip(_)
LStrip(s) == IF Len(s) > 0 /\ s[1] = " " THEN LStrip(Tail(s)) ELSE s

RECURSIVE RStrip(_)
RStrip(s) ==
    IF Len(s) > 0 /\ s[Len(s)] = " " THEN RStrip(SubSeq(s, 1, Len(s) - 1)) ELSE s

\* text.strip()
Strip(s) == RStrip(LStrip(s))

(***************************************************************************)
(* Values the operations are exercised with.                               *)
(***************************************************************************)
\* An optional argument is None when left out and Some(value) when supplied.
None == {}

Some(v) == {v}

Food == <<"F", "o", "o", "d">>

food == <<"f", "o", "o", "d">>

FoodPadded == <<" ", "F", "o", "o", "d", " ">>

Transport == <<"T", "r", "a", "n", "s", "p", "o", "r", "t">>

Entertainment == <<"E", "n", "t", "e", "r", "t", "a", "i", "n", "m", "e", "n", "t">>

Utilities == <<"U", "t", "i", "l", "i", "t", "i", "e", "s">>

Shopping == <<"S", "h", "o", "p", "p", "i", "n", "g">>

Other == <<"O", "t", "h", "e", "r">>

Lunch == <<"l", "u", "n", "c", "h">>

Gas == <<"g", "a", "s">>

Oct20 == YearMonth \o <<"2", "0">>

Oct21 == YearMonth \o <<"2", "1">>

BadDate == <<"2", "0", "/", "1", "0">>

TagWork == <<"w", "o", "r", "k">>

TagCar == <<"c", "a", "r">>

\* Arguments of create_expense: amount, category, date_str, description, tags.
Request(a, c, d, t) ==
    [amount |-> a, category |-> c, date_str |-> d, description |-> Lunch, tags |-> t]

CreateRequests ==
    { Request(60, Food, Oct20, None),
      Request(40, food, Oct21, Some(<<<<>>>>)),
      Request(60, Transport, Oct20, Some(<<TagWork, TagCar>>)),
      Request(40, FoodPadded, BadDate, Some(<<>>)) }

\* Arguments of update_expense after expense_id; None is an argument left out.
Update(a, c, d, ds, t) ==
    [amount |-> a, category |-> c, date_str |-> d, description |-> ds, tags |-> t]

UpdateRequests ==
    { Update(Some(40), None, Some(BadDate), None, None),
      Update(None, Some(FoodPadded), None, None, Some(<<>>)),
      Update(None, None, Some(Oct21), Some(Gas), None) }

(***************************************************************************)
(* Expense and the CSV codec.                                              *)
(***************************************************************************)
\* DATA_FILE: absent, or a header and the rows under it.
NoFile == [exists |-> FALSE, rows |-> <<>>]

File(rows) == [exists |-> TRUE, rows |-> rows]

\* A counter that is never advanced.
StuckId(nid) == nid

\* Expense._next_id += 1
AdvanceId(nid) == nid + 1

\* Expense.__init__ with the id the allocator hands out
Expense(id, amount, category, date, description, tags) ==
    [id |-> id, amount |-> amount, category |-> category, date |-> date,
     description |-> description, tags |-> IF tags = None THEN <<>> ELSE Val(tags)]

\* One row of the CSV file as save_expenses writes it: to_dict, tags joined.
EncodeRow(e) ==
    [id |-> IntToStr(e.id), amount |-> FormatAmount(e.amount),
     category |-> e.category, date |-> IsoFormat(e.date),
     description |-> e.description, tags |-> Join(e.tags, "|")]

\* The rows save_expenses writes for expense_list
save_expenses(expense_list) ==
    [i \in 1..Len(expense_list) |-> EncodeRow(expense_list[i])]

\* The conversions load_expenses applies to one row; Fail if any of them raises.
DecodeRow(row) ==
    LET amount == ParseAmount(row.amount)
        expense_id == ParseInt(row.id)
        date_obj == FromIsoFormat(row.date)
        tags_list == IF row.tags # <<>> THEN Split(row.tags, "|") ELSE <<>>
    IN  IF amount = Fail \/ expense_id = Fail \/ date_obj = Fail THEN Fail
        ELSE Ok(Expense(Val(expense_id), Val(amount), row.category, Val(date_obj),
                        row.description, Some(tags_list)))

Max(a, b) == IF a > b THEN a ELSE b

\* A reset to the largest id itself.
ResetToMax(max_id, nid) == IF max_id > 0 THEN max_id ELSE nid

\* A reset that is left out.
ResetLeftOut(max_id, nid) == nid

\* if max_id > 0: Expense._next_id = max_id + 1
ResetNextId(max_id, nid) == IF max_id > 0 THEN max_id + 1 ELSE nid

RECURSIVE LoadLoop(_, _, _, _)
\* The loop of load_expenses over the rows not yet read, and what follows it.
\* Every decoded row constructs an Expense, which takes one id of the allocator.
LoadLoop(rows, loaded, max_id, nid) ==
    IF Len(rows) = 0
    THEN [expenses |-> loaded, next_id |-> ResetNextId(max_id, nid)]
    ELSE LET e == DecodeRow(rows[1])
         IN  IF e = Fail THEN [expenses |-> <<>>, next_id |-> nid]
             ELSE LoadLoop(Tail(rows), Append(loaded, Val(e)),
                           Max(max_id, Val(e).id), AdvanceId(nid))

\* load_expenses: the list it returns and Expense._next_id after it
load_expenses(f, nid) ==
    IF ~f.exists THEN [expenses |-> <<>>, next_id |-> nid]
    ELSE LoadLoop(f.rows, <<>>, 0, nid)

(***************************************************************************)
(* The files DATA_FILE can hold when the process starts.  The ids of a     *)
(* file are positive and pairwise distinct, as save_expenses writes them.  *)
(***************************************************************************)
Stored(id, category) == Expense(id, 60, category, 20, Lunch, Some(<<TagWork>>))

BadAmountRow == [EncodeRow(Stored(1, Food)) EXCEPT !.amount = <<"1", "2", ",", "5">>]

BadIdRow == [EncodeRow(Stored(1, Food)) EXCEPT !.id = <<"x">>]

BadDateRow == [EncodeRow(Stored(1, Food)) EXCEPT !.date = BadDate]

InitialFiles ==
    { NoFile,
      File(<<>>),
      File(save_expenses(<<Stored(3, Food), Stored(1, Transport)>>)),
      File(<<EncodeRow(Stored(2, Food)), BadAmountRow>>),
      File(<<BadIdRow, EncodeRow(Stored(2, Food))>>),
      File(<<EncodeRow(Stored(3, Food)), BadDateRow, EncodeRow(Stored(2, Food))>>) }

(***************************************************************************)
(* The budget ledger.  A dict is the sequence of its <<key, value>> items  *)
(* in insertion order, with no key twice.                                  *)
(***************************************************************************)
DefaultBudgets ==
    << <<Food, 100>>, <<Transport, 200>>, <<Entertainment, 150>>,
       <<Utilities, 300>>, <<Shopping, 200>>, <<Other, 250>> >>

RECURSIVE Escape(_)
\* The characters of a JSON string: the quote and the backslash are escaped.
Escape(s) ==
    IF Len(s) = 0 THEN <<>>
    ELSE (IF s[1] \in {"\"", "\\"} THEN <<"\\", s[1]>> ELSE <<s[1]>>) \o Escape(Tail(s))

\* One member of the object, indented by two spaces: '  "Food": 100.0'
JsonItem(pair) ==
    <<" ", " ", "\"">> \o Escape(pair[1]) \o <<"\"", ":", " ">> \o FormatAmount(pair[2])

RECURSIVE JsonItems(_)
JsonItems(budgets) ==
    IF Len(budgets) = 1 THEN JsonItem(budgets[1])
    ELSE JsonItem(budgets[1]) \o <<",", "\n">> \o JsonItems(Tail(budgets))

\* json.dump(budgets, file, indent=2) of a dict of whole amounts
json_dump(budgets) ==
    IF Len(budgets) = 0 THEN <<"{", "}">>
    ELSE <<"{", "\n">> \o JsonItems(budgets) \o <<"\n", "}">>

Whitespace == {" ", "\n"}

RECURSIVE SkipWhitespace(_, _)
\* The first position from i on that holds no whitespace.
SkipWhitespace(t, i) ==
    IF i <= Len(t) /\ t[i] \in Whitespace THEN SkipWhitespace(t, i + 1) ELSE i

\* The character at position i, "" past the end.
At(t, i) == IF i <= Len(t) THEN t[i] ELSE ""

RECURSIVE ScanString(_, _, _)
\* The JSON string whose opening quote is before position i: its value and
\* the position after its closing quote.
ScanString(t, i, acc) ==
    IF i > Len(t) THEN Fail
    ELSE IF t[i] = "\"" THEN Ok([value |-> acc, next |-> i + 1])
    ELSE IF t[i] = "\\"
         THEN IF At(t, i + 1) \in {"\"", "\\"}
              THEN ScanString(t, i + 2, Append(acc, t[i + 1]))
              ELSE Fail
         ELSE ScanString(t, i + 1, Append(acc, t[i]))

RECURSIVE NumberEnd(_, _)
\* The position after the number that starts at i.
NumberEnd(t, i) ==
    IF i <= Len(t) /\ t[i] \in DigitChars \cup {"."} THEN NumberEnd(t, i + 1) ELSE i

\* dict[key] = value: a key that is present keeps its place.
Put(dict, key, value) ==
    IF \E i \in 1..Len(dict) : dict[i][1] = key
    THEN [i \in 1..Len(dict) |-> IF dict[i][1] = key THEN <<key, value>> ELSE dict[i]]
    ELSE Append(dict, <<key, value>>)

RECURSIVE ParseMembers(_, _, _)
\* The members of the object from position i, where a key is to start.
ParseMembers(t, i, acc) ==
    LET key == ScanString(t, i + 1, <<>>)
        colon == SkipWhitespace(t, Val(key).next)
        start == SkipWhitespace(t, colon + 1)
        end == NumberEnd(t, start)
        number == ParseAmount(SubSeq(t, start, end - 1))
        after == SkipWhitespace(t, end)
        dict == Put(acc, Val(key).value, Val(number))
    IN  IF At(t, i) # "\"" \/ key = Fail THEN Fail
        ELSE IF At(t, colon) # ":" \/ number = Fail THEN Fail
        ELSE IF At(t, after) = ","
             THEN ParseMembers(t, SkipWhitespace(t, after + 1), dict)
        ELSE IF At(t, after) = "}" /\ SkipWhitespace(t, after + 1) > Len(t)
             THEN Ok(dict)
        ELSE Fail

\* json.load(file) of an object of whole amounts: Ok(dict), or Fail when it
\* raises JSONDecodeError.
json_load(t) ==
    LET open == SkipWhitespace(t, 1)
        first == SkipWhitespace(t, open + 1)
    IN  IF At(t, open) # "{" THEN Fail
        ELSE IF At(t, first) = "}"
             THEN IF SkipWhitespace(t, first + 1) > Len(t) THEN Ok(<<>>) ELSE Fail
        ELSE ParseMembers(t, first, <<>>)

\* BUDGETS_FILE: absent, or present with its text.
NoBudgetsFile == [exists |-> FALSE, text |-> <<>>]

\* A file cut off after its first character.
UnreadableBudgetsFile == [exists |-> TRUE, text |-> <<"{">>]

BudgetsFile(budgets) == [exists |-> TRUE, text |-> json_dump(budgets)]

\* A load that lays the file's budgets over the defaults.
load_over_defaults(bf) ==
    LET budgets == json_load(bf.text)
        RECURSIVE Overlay(_, _)
        Overlay(dict, pairs) ==
            IF Len(pairs) = 0 THEN dict
            ELSE Overlay(Put(dict, pairs[1][1], pairs[1][2]), Tail(pairs))
    IN  IF ~bf.exists THEN DefaultBudgets
        ELSE IF budgets = Fail THEN <<>>
        ELSE Overlay(DefaultBudgets, Val(budgets))

\* load_budgets()
load_budgets(bf) ==
    LET budgets == json_load(bf.text)
    IN  IF ~bf.exists THEN DefaultBudgets
        ELSE IF budgets = Fail THEN <<>>
        ELSE Val(budgets)

\* A category with a quote and a backslash in it.
Quoted == <<"\"", "F", "\\">>

\* The ledgers save_budgets is called with.
Ledgers ==
    { <<>>,
      << <<Food, 100>> >>,
      << <<Transport, 200>>, <<Food, 60>>, <<Other, 250>> >>,
      << <<Quoted, 60>>, <<Food, 40>> >> }

(***************************************************************************)
(* Aggregation: check_budgets and its two ways to the spending summary.    *)
(* A summary and the report's "budgets" are functions of the category.     *)
(***************************************************************************)
EmptyDict == [c \in {} |-> 0]

\* An accumulation that overwrites the total.
Overwrite(summary, e) == (e.category :> e.amount) @@ summary

\* One turn of the loop over expenses of the manual calculation.
Accumulate(summary, e) ==
    IF e.category \in DOMAIN summary
    THEN [summary EXCEPT ![e.category] = @ + e.amount]
    ELSE (e.category :> e.amount) @@ summary

RECURSIVE ManualSummary(_, _)
\* spending_summary of the manual calculation
ManualSummary(list, summary) ==
    IF Len(list) = 0 THEN summary
    ELSE ManualSummary(Tail(list), Accumulate(summary, list[1]))

RECURSIVE SumAmounts(_)
SumAmounts(list) ==
    IF Len(list) = 0 THEN 0 ELSE list[1].amount + SumAmounts(Tail(list))

\* df.groupby('category')['amount'].sum()
GroupBySum(list) ==
    [c \in {list[i].category : i \in 1..Len(list)} |->
        SumAmounts(SelectSeq(list, LAMBDA e : e.category = c))]

\* A lookup that ignores letter case and surrounding whitespace.
GetNormalised(summary, category) ==
    LET keys == {k \in DOMAIN summary : Lower(Strip(k)) = Lower(Strip(category))}
        RECURSIVE Total(_)
        Total(ks) == IF ks = {} THEN 0
                     ELSE LET k == CHOOSE k \in ks : TRUE
                          IN  summary[k] + Total(ks \ {k})
    IN  Total(keys)

\* spending_summary.get(category, 0.00)
Get(summary, category) ==
    IF category \in DOMAIN summary THEN summary[category] ELSE 0

\* A status that counts an exhausted budget as exceeded.
StatusAtLimit(remaining) == IF remaining <= 0 THEN "Over Budget" ELSE "Good"

\* "Over Budget" if remaining < 0 else "Good"
Status(remaining) == IF remaining < 0 THEN "Over Budget" ELSE "Good"

RECURSIVE BudgetLoop(_, _, _, _)
\* The loop over BUDGETS.items() and the report returned after it.
BudgetLoop(items, spending_summary, results, over_budget_count) ==
    IF Len(items) = 0
    THEN [budgets |-> results, over_budget_count |-> over_budget_count]
    ELSE LET category == items[1][1]
             budget == items[1][2]
             spent == Get(spending_summary, category)
             remaining == budget - spent
             entry == [budget |-> budget, spent |-> spent,
                       remaining |-> remaining, status |-> Status(remaining)]
         IN  BudgetLoop(Tail(items), spending_summary,
                        (category :> entry) @@ results,
                        IF remaining < 0 THEN over_budget_count + 1
                        ELSE over_budget_count)

Report(budgets, over_budget_count, total_budgets) ==
    [budgets |-> budgets, over_budget_count |-> over_budget_count,
     total_budgets |-> total_budgets]

\* check_budgets(), with charts the value of CHARTS_AVAILABLE
check_budgets(list, bf, charts) ==
    LET BUDGETS == load_budgets(bf)
        spending_summary == IF ~charts THEN ManualSummary(list, EmptyDict)
                            ELSE GroupBySum(list)
        r == BudgetLoop(BUDGETS, spending_summary, EmptyDict, 0)
    IN  IF Len(list) = 0 THEN Report(EmptyDict, 0, 0)
        ELSE IF Len(BUDGETS) = 0 THEN Report(EmptyDict, 0, 0)
        ELSE Report(r.budgets, r.over_budget_count, Len(BUDGETS))

\* get_dashboard_data: summary_data, with pandas whether "import pandas" succeeds
spending_by_category(list, pandas) ==
    IF Len(list) = 0 THEN EmptyDict
    ELSE IF pandas THEN GroupBySum(list)
    ELSE ManualSummary(list, EmptyDict)

(***************************************************************************)
(* State.                                                                  *)
(***************************************************************************)
VARIABLES
    expenses,   \* app.expenses, the global list of Expense objects
    next_id,    \* Expense._next_id
    file,       \* the content of DATA_FILE
    budgets_file,       \* the content of BUDGETS_FILE
    CHARTS_AVAILABLE,   \* whether pandas and matplotlib were imported
    last,       \* the last call: its name, its arguments and what it returned
    created,    \* history: the ids create_expense assigned since the last load
    loaded,     \* history: the ids of the last load's result, None before any load
    saved,      \* history: the dict of the last save_budgets, None before any
    api_expenses    \* api.expenses, the global list of the API module

vars ==
    <<expenses, next_id, file, budgets_file, CHARTS_AVAILABLE, last, created, loaded,
      saved, api_expenses>>

budget_vars == <<budgets_file, CHARTS_AVAILABLE>>

Call(op, args, ret) == [op |-> op, args |-> args, ret |-> ret]

\* The process after the modules are imported.
InitProcess ==
    /\ expenses = <<>>
    /\ next_id = 1
    /\ last = Call("start", <<>>, None)
    /\ created = <<>>
    /\ loaded = None
    /\ saved = None
    /\ api_expenses = <<>>

\* CHARTS_AVAILABLE is read by check_budgets alone: the specifications without
\* it take one of its values.
Init ==
    /\ InitProcess
    /\ file \in InitialFiles
    /\ budgets_file = NoBudgetsFile
    /\ CHARTS_AVAILABLE = TRUE

(***************************************************************************)
(* The store: create, get, update, delete.                                 *)
(***************************************************************************)
\* create_expense(amount, category, date_str, description, tags)
create_expense(req) ==
    LET date_obj == FromIsoFormat(req.date_str)
        new_expense == Expense(next_id, req.amount, req.category, Val(date_obj),
                               req.description, req.tags)
    IN  /\ Len(expenses) < MaxLen
        /\ next_id <= MaxId
        /\ IF date_obj = Fail
           THEN /\ last' = Call("create_expense", req, None)
                /\ UNCHANGED <<expenses, next_id, created>>
           ELSE /\ expenses' = Append(expenses, new_expense)
                /\ next_id' = AdvanceId(next_id)
                /\ created' = Append(created, new_expense.id)
                /\ last' = Call("create_expense", req, Some(new_expense))
        /\ UNCHANGED <<file, loaded, budget_vars, saved, api_expenses>>

\* get_expense(expense_id): the position of the first expense with that id, 0 if none
get_expense(list, expense_id) ==
    IF \E i \in 1..Len(list) : list[i].id = expense_id
    THEN CHOOSE i \in 1..Len(list) :
            /\ list[i].id = expense_id
            /\ \A j \in 1..(i - 1) : list[j].id # expense_id
    ELSE 0

\* An update that resets the tags it was not given.
ApplyUpdateResettingTags(e, upd) ==
    LET e1 == IF upd.amount # None THEN [e EXCEPT !.amount = Val(upd.amount)] ELSE e
        e2 == IF upd.category # None THEN [e1 EXCEPT !.category = Val(upd.category)] ELSE e1
        date_obj == IF upd.date_str # None THEN FromIsoFormat(Val(upd.date_str)) ELSE Fail
        e3 == IF upd.date_str # None THEN [e2 EXCEPT !.date = Val(date_obj)] ELSE e2
        e4 == IF upd.description # None
              THEN [e3 EXCEPT !.description = Val(upd.description)] ELSE e3
        e5 == [e4 EXCEPT !.tags = IF upd.tags # None THEN Val(upd.tags) ELSE <<>>]
    IN  IF upd.date_str # None /\ date_obj = Fail
        THEN [expense |-> e2, ret |-> FALSE]
        ELSE [expense |-> e5, ret |-> TRUE]

\* The assignments of update_expense to the expense it found, in the order of
\* the code: amount, category, date (which may raise), description, tags.
ApplyUpdate(e, upd) ==
    LET e1 == IF upd.amount # None THEN [e EXCEPT !.amount = Val(upd.amount)] ELSE e
        e2 == IF upd.category # None THEN [e1 EXCEPT !.category = Val(upd.category)] ELSE e1
        date_obj == IF upd.date_str # None THEN FromIsoFormat(Val(upd.date_str)) ELSE Fail
        e3 == IF upd.date_str # None THEN [e2 EXCEPT !.date = Val(date_obj)] ELSE e2
        e4 == IF upd.description # None
              THEN [e3 EXCEPT !.description = Val(upd.description)] ELSE e3
        e5 == IF upd.tags # None THEN [e4 EXCEPT !.tags = Val(upd.tags)] ELSE e4
    IN  IF upd.date_str # None /\ date_obj = Fail
        THEN [expense |-> e2, ret |-> FALSE]
        ELSE [expense |-> e5, ret |-> TRUE]

\* update_expense(expense_id, amount, category, date_str, description, tags)
update_expense(expense_id, upd) ==
    LET i == get_expense(expenses, expense_id)
        r == ApplyUpdate(expenses[i], upd)
    IN  /\ IF i # 0
           THEN /\ expenses' = [expenses EXCEPT ![i] = r.expense]
                /\ last' = Call("update_expense", <<expense_id, upd>>, r.ret)
           ELSE /\ expenses' = expenses
                /\ last' = Call("update_expense", <<expense_id, upd>>, FALSE)
        /\ UNCHANGED <<next_id, file, created, loaded, budget_vars, saved, api_expenses>>

\* The comprehension with its test inverted: the expenses with that id.
OnlyWith(list, expense_id) == SelectSeq(list, LAMBDA e : e.id = expense_id)

RECURSIVE Without(_, _)
\* [e for e in expenses if e.id != expense_id]
Without(list, expense_id) ==
    IF Len(list) = 0 THEN <<>>
    ELSE IF list[1].id # expense_id
         THEN <<list[1]>> \o Without(Tail(list), expense_id)
         ELSE Without(Tail(list), expense_id)

\* delete_expense(expense_id)
delete_expense(expense_id) ==
    LET initial_length == Len(expenses)
        kept == Without(expenses, expense_id)
    IN  /\ expenses' = kept
        /\ last' = Call("delete_expense", expense_id, Len(kept) < initial_length)
        /\ UNCHANGED <<next_id, file, created, loaded, budget_vars, saved, api_expenses>>

\* A match of every category that begins with the search term.
CategoryStartsWith(e, category) ==
    LET term == Lower(Strip(category))
    IN  Len(e.category) >= Len(term)
        /\ SubSeq(Lower(e.category), 1, Len(term)) = term

\* e.category.lower() == category.strip().lower()
CategoryMatches(e, category) == Lower(e.category) = Lower(Strip(category))

\* search_tag in [t.lower() for t in e.tags]
TagMatches(e, tag) ==
    LET search_tag == Lower(Strip(tag))
    IN  \E i \in 1..Len(e.tags) : Lower(e.tags[i]) = search_tag

\* "category and category.strip()": the argument is given, not empty and not blank
Truthy(arg) == arg # None /\ Len(Val(arg)) > 0 /\ Len(Strip(Val(arg))) > 0

\* filter_expenses(category, tag): the list it returns
filter_expenses(list, category, tag) ==
    LET by_category == IF Truthy(category)
                       THEN SelectSeq(list, LAMBDA e : CategoryMatches(e, Val(category)))
                       ELSE list
    IN  IF Truthy(tag)
        THEN SelectSeq(by_category, LAMBDA e : TagMatches(e, Val(tag)))
        ELSE by_category

\* filter_expenses_endpoint and choice 3 of run_cli
FilterExpenses(category, tag) ==
    /\ last' = Call("filter_expenses", <<category, tag>>,
                    filter_expenses(expenses, category, tag))
    /\ UNCHANGED <<expenses, next_id, file, created, loaded, budget_vars, saved, api_expenses>>

(***************************************************************************)
(* Persistence.                                                            *)
(***************************************************************************)
\* startup_event, and the first statement of run_cli: the list is replaced
\* by what load_expenses returns.
startup_event ==
    LET r == load_expenses(file, next_id)
    IN  /\ r.next_id <= MaxId + 1
        /\ expenses' = r.expenses
        /\ next_id' = r.next_id
        /\ loaded' = Some({r.expenses[i].id : i \in 1..Len(r.expenses)})
        /\ created' = <<>>
        /\ last' = Call("load_expenses", <<>>, Len(r.expenses))
        /\ UNCHANGED <<file, budget_vars, saved, api_expenses>>

\* save_expenses(list_expenses()), as the API handlers and run_cli call it
SaveExpenses ==
    /\ file' = File(save_expenses(expenses))
    /\ last' = Call("save_expenses", <<>>, None)
    /\ UNCHANGED <<expenses, next_id, created, loaded, budget_vars, saved, api_expenses>>

(***************************************************************************)
(* Budgets.                                                                *)
(***************************************************************************)
\* save_budgets(budgets)
SaveBudgets(budgets) ==
    /\ budgets_file' = BudgetsFile(budgets)
    /\ last' = Call("save_budgets", budgets, None)
    /\ saved' = Some(budgets)
    /\ UNCHANGED <<expenses, next_id, file, CHARTS_AVAILABLE, created, loaded, api_expenses>>

\* get_budgets: the dict load_budgets() returns
GetBudgets ==
    /\ last' = Call("get_budgets", <<>>, load_budgets(budgets_file))
    /\ UNCHANGED <<expenses, next_id, file, budget_vars, created, loaded, saved, api_expenses>>

\* get_budget_status: the report of check_budgets()
CheckBudgets ==
    /\ last' = Call("check_budgets", <<>>,
                    check_budgets(expenses, budgets_file, CHARTS_AVAILABLE))
    /\ UNCHANGED <<expenses, next_id, file, budget_vars, created, loaded, saved, api_expenses>>

\* get_dashboard_data.  pandas is importable when CHARTS_AVAILABLE, and may
\* be importable without matplotlib when it is not.
GetDashboardData ==
    \E pandas \in (IF CHARTS_AVAILABLE THEN {TRUE} ELSE BOOLEAN) :
        /\ last' = Call("get_dashboard_data", <<>>,
                [total_spent |-> SumAmounts(expenses),
                 expense_count |-> Len(expenses),
                 spending_by_category |-> spending_by_category(expenses, pandas),
                 budget_status |->
                     check_budgets(expenses, budgets_file, CHARTS_AVAILABLE)])
        /\ UNCHANGED <<expenses, next_id, file, budget_vars, created, loaded, saved, api_expenses>>

(***************************************************************************)
(* The handlers of the HTTP API, each with the save that ends it.          *)
(***************************************************************************)
\* create_new_expense: 400 when create_expense returns None, else the list
\* is saved and the new expense returned.
create_new_expense(req) ==
    LET date_obj == FromIsoFormat(req.date_str)
        new_expense == Expense(next_id, req.amount, req.category, Val(date_obj),
                               req.description, req.tags)
    IN  /\ Len(expenses) < MaxLen
        /\ next_id <= MaxId
        /\ IF date_obj = Fail
           THEN /\ last' = Call("create_new_expense", req, None)
                /\ UNCHANGED <<expenses, next_id, created, file>>
           ELSE /\ expenses' = Append(expenses, new_expense)
                /\ next_id' = AdvanceId(next_id)
                /\ created' = Append(created, new_expense.id)
                /\ file' = File(save_expenses(expenses'))
                /\ last' = Call("create_new_expense", req, Some(new_expense))
        /\ UNCHANGED <<loaded, budget_vars, saved, api_expenses>>

\* update_existing_expense: 404 when update_expense returns False, else the
\* list is saved and the expense returned.
update_existing_expense(expense_id, upd) ==
    LET i == get_expense(expenses, expense_id)
        r == ApplyUpdate(expenses[i], upd)
    IN  /\ IF i # 0
           THEN /\ expenses' = [expenses EXCEPT ![i] = r.expense]
                /\ IF r.ret
                   THEN /\ file' = File(save_expenses(expenses'))
                        /\ last' = Call("update_existing_expense", <<expense_id, upd>>,
                                        Some(r.expense))
                   ELSE /\ file' = file
                        /\ last' = Call("update_existing_expense", <<expense_id, upd>>, None)
           ELSE /\ UNCHANGED <<expenses, file>>
                /\ last' = Call("update_existing_expense", <<expense_id, upd>>, None)
        /\ UNCHANGED <<next_id, created, loaded, budget_vars, saved, api_expenses>>

\* delete_existing_expense: 404 when delete_expense returns False, else the
\* list is saved.
delete_existing_expense(expense_id) ==
    LET initial_length == Len(expenses)
        kept == Without(expenses, expense_id)
        success == Len(kept) < initial_length
    IN  /\ expenses' = kept
        /\ file' = IF success THEN File(save_expenses(kept)) ELSE file
        /\ last' = Call("delete_existing_expense", expense_id, success)
        /\ UNCHANGED <<next_id, created, loaded, budget_vars, saved, api_expenses>>

\* get_all_expenses: the expenses of list_expenses()
get_all_expenses ==
    /\ last' = Call("get_all_expenses", <<>>, expenses)
    /\ UNCHANGED <<expenses, next_id, file, created, loaded, budget_vars, saved, api_expenses>>

\* get_spending_summary: it reads the list of the API module
get_spending_summary ==
    /\ last' = Call("get_spending_summary", <<>>,
                    IF Len(api_expenses) = 0
                    THEN [summary |-> EmptyDict, total |-> 0]
                    ELSE [summary |-> GroupBySum(api_expenses),
                          total |-> SumAmounts(api_expenses),
                          expense_count |-> Len(api_expenses)])
    /\ UNCHANGED <<expenses, next_id, file, created, loaded, budget_vars, saved, api_expenses>>

\* The ids update_expense and delete_expense are called with: every id of the
\* store, and 0, an id that no expense has (ids are positive).
IdArgs == {expenses[i].id : i \in 1..Len(expenses)} \cup {0}

(***************************************************************************)
(* Spec: the allocator, the ids of the store and the file.  One kind of     *)
(* record is created, so that the state is the ids.                        *)
(***************************************************************************)
Next ==
    \/ \E req \in {Request(60, Food, Oct20, None), Request(60, Food, BadDate, None)} :
          create_expense(req)
    \/ \E id \in IdArgs : update_expense(id, Update(Some(60), None, None, None, None))
    \/ \E id \in IdArgs : delete_expense(id)
    \/ startup_event
    \/ SaveExpenses

Spec == Init /\ [][Next]_vars

(***************************************************************************)
(* SpecStore: create, update and delete with every request, in a process   *)
(* that starts without a file.                                             *)
(***************************************************************************)
InitStore ==
    /\ InitProcess
    /\ file = NoFile
    /\ budgets_file = NoBudgetsFile
    /\ CHARTS_AVAILABLE = TRUE

NextStore ==
    \/ \E req \in CreateRequests : create_expense(req)
    \/ \E id \in IdArgs, upd \in UpdateRequests : update_expense(id, upd)
    \/ \E id \in IdArgs : delete_expense(id)

SpecStore == InitStore /\ [][NextStore]_vars

(***************************************************************************)
(* SpecCodec: what is created is saved and loaded again.                   *)
(***************************************************************************)
TagWithSeparator == <<"a", "|", "b">>

NextCodec ==
    \/ \E req \in CreateRequests \cup {Request(40, Transport, Oct21, Some(<<TagWithSeparator>>))} :
          create_expense(req)
    \/ SaveExpenses
    \/ startup_event

SpecCodec == InitStore /\ [][NextCodec]_vars

(***************************************************************************)
(* SpecBudget: expenses are created and deleted, the ledger is saved, and  *)
(* the budget report is computed.                                          *)
(***************************************************************************)
InitBudget ==
    /\ InitProcess
    /\ file = NoFile
    /\ budgets_file \in {NoBudgetsFile, UnreadableBudgetsFile}
    /\ CHARTS_AVAILABLE \in BOOLEAN

NextBudget ==
    \/ \E req \in CreateRequests : create_expense(req)
    \/ \E id \in IdArgs : delete_expense(id)
    \/ \E budgets \in Ledgers : SaveBudgets(budgets)
    \/ GetBudgets
    \/ CheckBudgets
    \/ GetDashboardData

SpecBudget == InitBudget /\ [][NextBudget]_vars

(***************************************************************************)
(* SpecFilter: expenses of several categories and tags are created and     *)
(* the store is filtered.                                                  *)
(***************************************************************************)
Foodie == <<"F", "o", "o", "d", "i", "e">>

FOODPadded == <<" ", "F", "O", "O", "D", " ">>

TagWorkCapital == <<"W", "o", "r", "k">>

WORKPadded == <<" ", "W", "O", "R", "K", " ">>

Blank == <<" ">>

FilterCreateRequests ==
    { Request(60, Food, Oct20, Some(<<TagWorkCapital, TagCar>>)),
      Request(40, food, Oct21, Some(<<TagCar>>)),
      Request(60, Foodie, Oct20, Some(<<TagWork>>)),
      Request(40, FoodPadded, Oct21, None) }

CategoryArgs == {None, Some(food), Some(FOODPadded), Some(Blank), Some(<<>>)}

TagArgs == {None, Some(WORKPadded), Some(TagCar), Some(Blank)}

NextFilter ==
    \/ \E req \in FilterCreateRequests : create_expense(req)
    \/ \E category \in CategoryArgs, tag \in TagArgs : FilterExpenses(category, tag)

SpecFilter == InitStore /\ [][NextFilter]_vars

(***************************************************************************)
(* SpecApi: the API process loads the file once, at startup, and then      *)
(* serves requests.                                                        *)
(***************************************************************************)
InitApi ==
    /\ InitProcess
    /\ file \in {NoFile, File(save_expenses(<<Stored(3, Food), Stored(1, Transport)>>))}
    /\ budgets_file = NoBudgetsFile
    /\ CHARTS_AVAILABLE = TRUE

ApiUpdateRequests ==
    { Update(Some(40), None, None, None, None),
      Update(None, Some(Transport), Some(BadDate), None, None) }

NextApi ==
    \/ loaded = None /\ startup_event
    \/ loaded # None /\ \E req \in CreateRequests : create_new_expense(req)
    \/ loaded # None /\ \E id \in IdArgs, upd \in ApiUpdateRequests :
                            update_existing_expense(id, upd)
    \/ loaded # None /\ \E id \in IdArgs : delete_existing_expense(id)
    \/ loaded # None /\ get_all_expenses
    \/ loaded # None /\ get_spending_summary

SpecApi == InitApi /\ [][NextApi]_vars

(***************************************************************************)
(* Claims.                                                                 *)
(***************************************************************************)
IdsOf(list) == {list[i].id : i \in 1..Len(list)}

MaxOf(S) == CHOOSE m \in S : \A x \in S : x <= m

\* C1: no two expenses of the store have the same id, whatever sequence of
\* create_expense, update_expense and delete_expense calls, successful or
\* failing, ran on an empty store or on one loaded from a file of distinct ids.
C1_IdsDistinct ==
    \A i, j \in 1..Len(expenses) : i # j => expenses[i].id # expenses[j].id

\* C1: an expense was created next to one that was loaded from the file.
C1_Witness ==
    /\ loaded # None
    /\ Val(loaded) # {}
    /\ created # <<>>
    /\ Len(expenses) = 2
    /\ last.op = "update_expense"

\* C2: after a load that returned the rows of a non-empty file, the first
\* create_expense that succeeds is assigned the largest loaded id plus one.
C2_CreateAfterLoad ==
    (loaded # None /\ Val(loaded) # {} /\ created # <<>>)
        => created[1] = MaxOf(Val(loaded)) + 1

\* C2: the file held ids 3 and 1, in that order, and was loaded after the
\* allocator had handed out ids; the next expense created has id 4.
C2_Witness ==
    /\ loaded # None
    /\ Val(loaded) = {1, 3}
    /\ created = <<4>>
    /\ last.op = "create_expense"

\* C3: after load_expenses the allocator's counter is the largest id of the
\* loaded collection plus one, and 1 when the loaded collection is empty.
C3_CounterAfterLoad ==
    last.op = "load_expenses"
        => next_id = IF expenses = <<>> THEN 1 ELSE MaxOf(IdsOf(expenses)) + 1

RECURSIVE DecodableRows(_)
\* The records of the rows that decode, in the order of the file.
DecodableRows(rows) ==
    IF Len(rows) = 0 THEN <<>>
    ELSE LET e == DecodeRow(rows[1])
         IN  IF e = Fail THEN DecodableRows(Tail(rows))
             ELSE <<Val(e)>> \o DecodableRows(Tail(rows))

\* C5: load_expenses skips exactly the rows that fail to decode and returns
\* the records of all other rows in file order.
C5_LoadSkipsBadRows ==
    (last.op = "load_expenses" /\ file.exists)
        => expenses = DecodableRows(file.rows)

\* C7: while the process has not loaded, the ids that successive successful
\* create_expense calls assign start at 1 and strictly increase, so that no id
\* is assigned twice, also after the expense that held it was deleted.
C7_IdsIncrease ==
    /\ (loaded = None /\ created # <<>>) => created[1] = 1
    /\ \A i, j \in 1..Len(created) : i < j => created[i] < created[j]

\* C7: three ids were assigned in a process that never loaded, and expenses
\* were deleted in between.
C7_Witness ==
    /\ loaded = None
    /\ Len(created) = 3
    /\ Len(expenses) = 1
    /\ last.op = "create_expense"

\* C4: update_expense on an existing id with a date_str that does not parse
\* returns False and leaves every field of every expense as it was.
C4_BadDateUpdateChangesNothing ==
    [][(/\ last'.op = "update_expense"
        /\ last'.args[1] \in IdsOf(expenses)
        /\ last'.args[2].date_str # None
        /\ FromIsoFormat(Val(last'.args[2].date_str)) = Fail)
       => (last'.ret = FALSE /\ expenses' = expenses)]_vars

NoSeparator(list) ==
    \A i \in 1..Len(list) : \A j \in 1..Len(list[i].tags) :
        \A k \in 1..Len(list[i].tags[j]) : list[i].tags[j][k] # "|"

\* C6: when no tag holds the separator, load_expenses right after
\* save_expenses returns the saved collection: as many records, in the same
\* order, equal field for field.
C6_SaveLoadRoundTrip ==
    [][(/\ last.op = "save_expenses"
        /\ last'.op = "load_expenses"
        /\ NoSeparator(expenses))
       => expenses' = expenses]_vars

RECURSIVE SumOver(_, _)
\* The sum of the amounts of the expenses at the positions S.
SumOver(list, S) ==
    IF S = {} THEN 0
    ELSE LET i == CHOOSE i \in S : TRUE
         IN  list[i].amount + SumOver(list, S \ {i})

\* What the expenses of exactly the category c amount to.
SpentOn(c) == SumOver(expenses, {i \in 1..Len(expenses) : expenses[i].category = c})

Normalise(c) == Lower(Strip(c))

\* What the expenses amount to whose category is c up to case and whitespace.
SpentOnNormalised(c) ==
    SumOver(expenses,
            {i \in 1..Len(expenses) : Normalise(expenses[i].category) = Normalise(c)})

\* The positions of the expenses whose category is c up to case and whitespace
\* only, not c itself.
Variants(c) ==
    {i \in 1..Len(expenses) :
        /\ Normalise(expenses[i].category) = Normalise(c)
        /\ expenses[i].category # c}

Ledger == load_budgets(budgets_file)

Reported == last.op = "check_budgets" /\ Len(expenses) > 0 /\ Len(Ledger) > 0

\* C8: with an expense in the store and an entry in the ledger, the report of
\* check_budgets has one entry per ledger category; spent is the sum of the
\* amounts of the expenses of that category, remaining is budget - spent,
\* status is "Over Budget" when remaining < 0 and "Good" otherwise;
\* over_budget_count counts the entries with remaining < 0 and total_budgets
\* the ledger entries.
C8_BudgetReport ==
    Reported =>
        LET r == last.ret
            cats == {Ledger[i][1] : i \in 1..Len(Ledger)}
        IN  /\ DOMAIN r.budgets = cats
            /\ \A i \in 1..Len(Ledger) :
                 LET c == Ledger[i][1]
                     x == r.budgets[c]
                 IN  /\ x.budget = Ledger[i][2]
                     /\ x.spent = SpentOn(c)
                     /\ x.remaining = x.budget - x.spent
                     /\ x.status = IF x.remaining < 0 THEN "Over Budget" ELSE "Good"
            /\ r.over_budget_count = Cardinality({c \in cats : r.budgets[c].remaining < 0})
            /\ r.total_budgets = Len(Ledger)

\* C8: a report with a category over budget and a category nothing was spent on.
C8_Witness ==
    /\ Reported
    /\ last.ret.over_budget_count = 1
    /\ \E c \in DOMAIN last.ret.budgets : last.ret.budgets[c].status = "Over Budget"
    /\ \E c \in DOMAIN last.ret.budgets : last.ret.budgets[c].spent = 0

C10_CaseInsensitiveSpent ==
    Reported =>
        \A c \in DOMAIN last.ret.budgets : last.ret.budgets[c].spent = SpentOnNormalised(c)

\* C10 amended: categories are compared as they are written; the amount of an
\* expense whose category differs from a ledger category by letter case or
\* surrounding whitespace is not counted in that category's spent.
C10_ExactCategorySpent ==
    Reported =>
        \A c \in DOMAIN last.ret.budgets :
            last.ret.budgets[c].spent = SpentOnNormalised(c) - SumOver(expenses, Variants(c))

\* C10: "food" was spent on, "Food" is in the ledger, and nothing is reported
\* as spent on "Food".
C10_Witness ==
    /\ Reported
    /\ Food \in DOMAIN last.ret.budgets
    /\ last.ret.budgets[Food].spent = 0
    /\ \E i \in 1..Len(expenses) : expenses[i].category = food

\* a and b are the same text up to letter case.
SameIgnoringCase(a, b) ==
    Len(a) = Len(b) /\ \A i \in 1..Len(a) : LowerChar(a[i]) = LowerChar(b[i])

\* The text between the first and the last character of s that is not a space.
Trimmed(s) ==
    LET inked == {i \in 1..Len(s) : s[i] # " "}
    IN  IF inked = {} THEN <<>>
        ELSE SubSeq(s, CHOOSE i \in inked : \A j \in inked : i <= j,
                       CHOOSE i \in inked : \A j \in inked : j <= i)

RECURSIVE InStoreOrder(_)
\* The expenses at the positions S, in the order of the store.
InStoreOrder(S) ==
    IF S = {} THEN <<>>
    ELSE LET m == CHOOSE i \in S : \A j \in S : i <= j
         IN  <<expenses[m]>> \o InStoreOrder(S \ {m})

CategoryHolds(i, category) == SameIgnoringCase(expenses[i].category, Trimmed(category))

TagHolds(i, tag) ==
    \E k \in 1..Len(expenses[i].tags) : SameIgnoringCase(expenses[i].tags[k], Trimmed(tag))

\* C11 as claimed: filter_expenses returns, in store order, exactly the
\* expenses that satisfy the condition of every argument that is supplied.
C11_FilterEverySuppliedArgument ==
    last.op = "filter_expenses" =>
        LET category == last.args[1]
            tag == last.args[2]
        IN  last.ret = InStoreOrder({i \in 1..Len(expenses) :
                /\ category # None => CategoryHolds(i, Val(category))
                /\ tag # None => TagHolds(i, Val(tag))})

\* An argument that is supplied, and is not empty or blank.
Filtering(arg) == arg # None /\ Trimmed(Val(arg)) # <<>>

\* C11 amended: an argument that is empty or holds only whitespace counts as
\* omitted; filter_expenses returns, in store order, exactly the expenses whose
\* category is the trimmed category argument up to case and one of whose tags
\* is the trimmed tag argument up to case, for the arguments that remain.
C11_FilterResult ==
    last.op = "filter_expenses" =>
        LET category == last.args[1]
            tag == last.args[2]
        IN  last.ret = InStoreOrder({i \in 1..Len(expenses) :
                /\ Filtering(category) => CategoryHolds(i, Val(category))
                /\ Filtering(tag) => TagHolds(i, Val(tag))})

\* C11: a filter by " FOOD " and " WORK " returned the "Food" expense tagged
\* "Work" from a store that also holds a "Foodie" expense tagged "work".
C11_Witness ==
    /\ last.op = "filter_expenses"
    /\ last.args = <<Some(FOODPadded), Some(WORKPadded)>>
    /\ Len(last.ret) = 1
    /\ last.ret[1].category = Food
    /\ \E i \in 1..Len(expenses) : expenses[i].category = Foodie

\* C12: delete_expense of an id that no expense carries returns False and
\* leaves the list and the id counter as they were; of an id that is carried
\* it returns True and the list is the previous one without the expenses of
\* that id, the others in their previous order, the id counter as it was.
C12_DeleteFrame ==
    [][last'.op = "delete_expense"
       => LET expense_id == last'.args
          IN  /\ next_id' = next_id
              /\ IF expense_id \notin IdsOf(expenses)
                 THEN last'.ret = FALSE /\ expenses' = expenses
                 ELSE /\ last'.ret = TRUE
                      /\ expenses' = InStoreOrder({i \in 1..Len(expenses) :
                                                     expenses[i].id # expense_id})]_vars

\* C12: a delete_expense returned True and another expense is still held.
C12_Witness ==
    /\ last.op = "delete_expense"
    /\ last.ret = TRUE
    /\ Len(expenses) >= 1
    /\ last.args \notin IdsOf(expenses)

\* The field of the updated expense: the value given, or else the old one.
Updated(given, old, new) == IF given = None THEN new = old ELSE new = Val(given)

\* C13: update_expense changes neither the id counter nor the length of the
\* list; of an id that no expense carries it returns False and changes
\* nothing; when it returns True one expense of that id has the given values
\* in the fields that were given, its id and its other fields as before, and
\* every other expense is as before, at its previous place.
C13_UpdateFrame ==
    [][last'.op = "update_expense"
       => LET expense_id == last'.args[1]
              upd == last'.args[2]
          IN  /\ next_id' = next_id
              /\ Len(expenses') = Len(expenses)
              /\ expense_id \notin IdsOf(expenses)
                    => (last'.ret = FALSE /\ expenses' = expenses)
              /\ last'.ret = TRUE
                    => \E i \in 1..Len(expenses) :
                          /\ expenses[i].id = expense_id
                          /\ \A j \in 1..Len(expenses) : j # i => expenses'[j] = expenses[j]
                          /\ expenses'[i].id = expense_id
                          /\ Updated(upd.amount, expenses[i].amount, expenses'[i].amount)
                          /\ Updated(upd.category, expenses[i].category, expenses'[i].category)
                          /\ Updated(upd.description, expenses[i].description,
                                     expenses'[i].description)
                          /\ Updated(upd.tags, expenses[i].tags, expenses'[i].tags)
                          /\ IF upd.date_str = None
                             THEN expenses'[i].date = expenses[i].date
                             ELSE expenses'[i].date = Val(FromIsoFormat(Val(upd.date_str)))]_vars

\* C13: an update_expense that was given no tags returned True on a list of
\* two expenses, one of which carries tags.
C13_Witness ==
    /\ last.op = "update_expense"
    /\ last.ret = TRUE
    /\ last.args[2].tags = None
    /\ Len(expenses) = 2
    /\ \E i \in 1..Len(expenses) :
          expenses[i].id = last.args[1] /\ Len(expenses[i].tags) > 0

\* C14: load_budgets returns the default budgets when BUDGETS_FILE was never
\* written and is absent, and returns them in no other case unless they are
\* what was saved; after save_budgets calls it returns the dict of the last
\* of them, whatever the earlier ones wrote, the empty dict included.
C14_LoadAfterSave ==
    last.op = "get_budgets" =>
        /\ (saved = None /\ ~budgets_file.exists) => last.ret = DefaultBudgets
        /\ saved # None => last.ret = Val(saved)
        /\ last.ret = DefaultBudgets
              => (~budgets_file.exists \/ saved = Some(DefaultBudgets))

\* C14: load_budgets returned a dict with a quoted category that was saved
\* over a file of another content.
C14_Witness ==
    /\ last.op = "get_budgets"
    /\ saved # None
    /\ Len(last.ret) = 2
    /\ last.ret[1][1] = Quoted

\* C15: in every state of the API process, after the load at startup and any
\* create, update and delete requests, the summary by category that
\* get_spending_summary returns gives each category of the store the total of
\* its expenses, as get_all_expenses lists them, with their overall total,
\* and is empty only when the store is empty.
C15_SummaryOfStore ==
    last.op = "get_spending_summary" =>
        /\ last.ret.summary =
              [c \in {expenses[i].category : i \in 1..Len(expenses)} |-> SpentOn(c)]
        /\ last.ret.total = SumOver(expenses, 1..Len(expenses))
        /\ last.ret.summary = EmptyDict => Len(expenses) = 0

====
